---- MODULE Spec2Model ----
(***************************************************************************)
(* A model of nompom (src/main.rs): a nom parser for Ruby-style literals.  *)
(*                                                                         *)
(* Text is a sequence of one-character strings.  A parser takes the        *)
(* remaining input and returns a result record                             *)
(*     [kind, rest, val, ctx, sps]                                         *)
(* kind  "Ok" | "Error" (nom::Err::Error, an ordinary mismatch)            *)
(*            | "Failure" (nom::Err::Failure, produced by cut)             *)
(* rest  the remaining input (Ok), or the input where the first error was  *)
(*       raised (Error, Failure)                                           *)
(* val   the output of the parser                                          *)
(* ctx   the context frames pushed by nom's context(), innermost first     *)
(*       (the Context entries of a VerboseError)                           *)
(* sps   history only: how much input was left at each call of sp that lies*)
(*       on the successful path and precedes a value, a comma, a closing   *)
(*       delimiter or a key-value separator                                *)
(***************************************************************************)
EXTENDS Integers, Sequences, FiniteSets, TLC

\* text    the input slice handed to the parser
\* family  the family of inputs text is drawn from
\* typed   how many pieces have been appended to text
\* pc      "typing" while the caller assembles text, then the entry point
\*         that was called: "value" (parse_value) or "pair" (parse_key_value)
\* result  what the entry point returned
VARIABLES text, family, typed, pc, result
vars == <<text, family, typed, pc, result>>

(***************************** characters **********************************)

WsChars == {" ", "\t", "\r", "\n"}

Digits == {"0", "1", "2", "3", "4", "5", "6", "7", "8", "9"}

Letters == {"a", "b", "c", "e", "f", "i", "l", "n", "o", "r", "s", "t", "u", "x"}

\* c.is_alphanum() || c == '_'
SymbolChars == Letters \cup Digits \cup {"_"}

DigitVal(c) ==
    CASE c = "0" -> 0 [] c = "1" -> 1 [] c = "2" -> 2 [] c = "3" -> 3
      [] c = "4" -> 4 [] c = "5" -> 5 [] c = "6" -> 6 [] c = "7" -> 7
      [] c = "8" -> 8 [] c = "9" -> 9

\* The characters of the model in byte order; String's Ord compares bytes.
ByteOrder ==
    <<"\t", "\n", "\r", " ", "\"", "'", ",", ".",
      "0", "1", "2", "3", "4", "5", "6", "7", "8", "9", ":", "=", ">",
      "[", "\\", "]", "_",
      "a", "b", "c", "e", "f", "i", "l", "n", "o", "r", "s", "t", "u", "x",
      "{", "}">>

Byte(c) == CHOOSE k \in 1..Len(ByteOrder) : ByteOrder[k] = c

RECURSIVE StrLess(_, _)
StrLess(a, b) ==
    IF b = <<>> THEN FALSE
    ELSE IF a = <<>> THEN TRUE
    ELSE IF Head(a) = Head(b) THEN StrLess(Tail(a), Tail(b))
    ELSE Byte(Head(a)) < Byte(Head(b))

Drop(s, n) == SubSeq(s, n + 1, Len(s))

Take(s, n) == SubSeq(s, 1, n)

StartsWith(s, t) == Len(s) >= Len(t) /\ Take(s, Len(t)) = t

(******************************* values ************************************)

Null == [tag |-> "Null", v |-> <<>>]

Bytes(s) == [tag |-> "Bytes", v |-> s]

Integer(i) == [tag |-> "Integer", v |-> i]

\* An f64 read from decimal text: m * 10^e, with m not a multiple of ten
\* unless e = 0.
Float(m, e) == [tag |-> "Float", v |-> <<m, e>>]

Boolean(b) == [tag |-> "Boolean", v |-> b]

\* A BTreeMap<String, Value>: its entries <<key, value>> in iteration order.
Object(entries) == [tag |-> "Object", v |-> entries]

Array(items) == [tag |-> "Array", v |-> items]

NoValue == [tag |-> "None", v |-> <<>>]

(****************************** results ************************************)

Ok(rest, val, sps) ==
    [kind |-> "Ok", rest |-> rest, val |-> val, ctx |-> <<>>, sps |-> sps]

Mismatch(at) ==
    [kind |-> "Error", rest |-> at, val |-> NoValue, ctx |-> <<>>, sps |-> {}]

\* nom::combinator::cut
cut(r) == IF r.kind = "Error" THEN [r EXCEPT !.kind = "Failure"] ELSE r

\* nom::error::context with E = VerboseError: add_context(i, name, e)
context(name, i, r) ==
    IF r.kind = "Ok" THEN r
    ELSE [r EXCEPT !.ctx = Append(@, [name |-> name, left |-> Len(i)])]

(**************************** whitespace ***********************************)

\* sp with chars = " ": tabs and line ends are not skipped
RECURSIVE sp_spaces(_)
sp_spaces(i) == IF i # <<>> /\ Head(i) = " " THEN sp_spaces(Tail(i)) ELSE i

RECURSIVE sp(_)
sp(i) == IF i # <<>> /\ Head(i) \in WsChars THEN sp(Tail(i)) ELSE i

(******************************* strings ***********************************)

\* take_while1(|c| c != '\\' && c != delimiter): the length of the run
RECURSIVE PlainLen(_, _)
PlainLen(i, delimiter) ==
    IF i # <<>> /\ Head(i) # "\\" /\ Head(i) # delimiter
    THEN 1 + PlainLen(Tail(i), delimiter)
    ELSE 0

\* tuple((take_while1(..), opt(tuple((satisfy('\\'), satisfy(not special))))))
\* The rest after one unit, or the input itself when the unit does not match.
NormalUnit(i, delimiter) ==
    LET n == PlainLen(i, delimiter)
        r == Drop(i, n)
    IN  IF n = 0 THEN i
        ELSE IF Len(r) >= 2 /\ r[1] = "\\" /\ r[2] # "\\" /\ r[2] # delimiter
             THEN Drop(r, 2)
             ELSE r

\* recognize(many1(unit)): the rest after as many units as match; the input
\* itself when the first unit does not match (Err::Error).
RECURSIVE Normal(_, _)
RECURSIVE many1_more(_, _, _)
many1_more(r, i, delimiter) ==
    IF Len(r) = Len(i) THEN i ELSE Normal(r, delimiter)

Normal(i, delimiter) == many1_more(NormalUnit(i, delimiter), i, delimiter)

\* escapable taken as any character
Escapable_any(c, delimiter) == TRUE

\* satisfy(|c| c == '\\' || c == delimiter)
Escapable(c, delimiter) == c = "\\" \/ c = delimiter

\* nom's escaped(normal, '\\', escapable), its loop at cursor i of whole.
\* The result's val is the recognized text, as it stands in the input.
RECURSIVE escaped(_, _, _)
RECURSIVE escaped_step(_, _, _, _)

\* One turn of the loop, n being what normal left of i
escaped_step(n, whole, i, delimiter) ==
    IF Len(n) < Len(i)
    THEN IF n = <<>> THEN Ok(<<>>, whole, {}) ELSE escaped(whole, n, delimiter)
    ELSE IF Head(i) = "\\"
    THEN IF 1 >= Len(i) THEN Mismatch(whole)
         ELSE IF Escapable(i[2], delimiter)
         THEN IF Len(i) = 2 THEN Ok(<<>>, whole, {})
              ELSE escaped(whole, Drop(i, 2), delimiter)
         ELSE Mismatch(Tail(i))
    ELSE IF Len(i) = Len(whole) THEN Mismatch(whole)
    ELSE Ok(i, Take(whole, Len(whole) - Len(i)), {})

escaped(whole, i, delimiter) ==
    IF i = <<>> THEN Ok(<<>>, whole, {})
    ELSE escaped_step(Normal(i, delimiter), whole, i, delimiter)

\* opt(..) and |inner| inner.unwrap_or(""): an Err::Error of e is the empty
\* text, nothing of i consumed
unwrap_or_empty(e, i) == IF e.kind = "Ok" THEN e ELSE Ok(i, <<>>, {})

\* map(opt(escaped(..)), |inner| inner.unwrap_or(""))
parse_inner_str(delimiter, i) == unwrap_or_empty(escaped(i, i, delimiter), i)

\* terminated(b, char(close)), b being the result of the first parser
terminated(b, close) ==
    IF b.kind # "Ok" THEN b
    ELSE IF b.rest # <<>> /\ Head(b.rest) = close
    THEN Ok(Tail(b.rest), b.val, b.sps)
    ELSE Mismatch(b.rest)

\* context("string", preceded(char(d), cut(terminated(inner, char(d)))))
parse_str(delimiter, i) ==
    context("string", i,
        IF i = <<>> \/ Head(i) # delimiter THEN Mismatch(i)
        ELSE cut(terminated(parse_inner_str(delimiter, Tail(i)), delimiter)))

\* alt((a, b)): b is tried only on an Err::Error of a
alt2(a, b) == IF a.kind = "Error" THEN b ELSE a

\* value.to_string(): the &str copied as it is
to_string(s) == s

\* map(.., |value| value.to_string())
into_string(r) == IF r.kind = "Ok" THEN [r EXCEPT !.val = to_string(@)] ELSE r

\* context("bytes", map(alt((parse_str('"'), parse_str('\''))), to_string))
parse_bytes(i) ==
    context("bytes", i, into_string(alt2(parse_str("\"", i), parse_str("'", i))))

(***************************** scalars *************************************)

parse_nil(i) ==
    IF StartsWith(i, <<"n", "i", "l">>) THEN Ok(Drop(i, 3), Null, {})
    ELSE Mismatch(i)

parse_boolean(i) ==
    IF StartsWith(i, <<"t", "r", "u", "e">>) THEN Ok(Drop(i, 4), TRUE, {})
    ELSE IF StartsWith(i, <<"f", "a", "l", "s", "e">>) THEN Ok(Drop(i, 5), FALSE, {})
    ELSE Mismatch(i)

RECURSIVE DigitLen(_)
DigitLen(i) ==
    IF i # <<>> /\ Head(i) \in Digits THEN 1 + DigitLen(Tail(i)) ELSE 0

RECURSIVE DecimalOf(_)
DecimalOf(ds) ==
    IF ds = <<>> THEN 0
    ELSE 10 * DecimalOf(Take(ds, Len(ds) - 1)) + DigitVal(ds[Len(ds)])

RECURSIVE Normalize(_, _)
Normalize(m, e) ==
    IF e < 0 /\ m % 10 = 0 THEN Normalize(m \div 10, e + 1) ELSE Float(m, e)

\* nom::number::complete::double on unsigned decimal text without exponent:
\* digit1 ('.' digit0)? | '.' digit1, read as an f64.  No text of the input
\* families puts a sign before a number, an e or E after one, or spells nan
\* or inf.
double(i) ==
    LET n == DigitLen(i)
        afterInt == Drop(i, n)
        dot == afterInt # <<>> /\ Head(afterInt) = "."
        f == IF dot THEN DigitLen(Tail(afterInt)) ELSE 0
    IN  IF n = 0 /\ (~dot \/ f = 0) THEN Mismatch(i)
        ELSE IF ~dot THEN Ok(afterInt, Float(DecimalOf(Take(i, n)), 0), {})
        ELSE Ok(Drop(afterInt, 1 + f),
                Normalize(DecimalOf(Take(i, n) \o Take(Tail(afterInt), f)), -f),
                {})

(******************************* keys **************************************)

RECURSIVE SymbolLen(_)
SymbolLen(i) ==
    IF i # <<>> /\ Head(i) \in SymbolChars THEN 1 + SymbolLen(Tail(i)) ELSE 0

parse_symbol_key(i) ==
    LET n == SymbolLen(i)
    IN  IF n = 0 THEN Mismatch(i) ELSE Ok(Drop(i, n), Take(i, n), {})

\* parse_colon_key without consumed: the symbol alone, its colon dropped
parse_colon_key_bare(i) ==
    IF i = <<>> \/ Head(i) # ":" THEN Mismatch(i) ELSE parse_symbol_key(Tail(i))

\* consumed(..) and |res| res.0: the output of s replaced by what was
\* consumed of i
consumed(s, i) ==
    IF s.kind = "Ok" THEN Ok(s.rest, Take(i, Len(i) - Len(s.rest)), {}) ELSE s

\* map(consumed(preceded(char(':'), parse_symbol_key)), |res| res.0)
parse_colon_key(i) ==
    IF i = <<>> \/ Head(i) # ":" THEN Mismatch(i)
    ELSE consumed(parse_symbol_key(Tail(i)), i)

digit1(i) ==
    LET n == DigitLen(i)
    IN  IF n = 0 THEN Mismatch(i) ELSE Ok(Drop(i, n), Take(i, n), {})

parse_key_arrow_hash(i) ==
    alt2(parse_str("\"", i),
         alt2(parse_str("'", i), alt2(parse_colon_key(i), digit1(i))))

parse_key_colon_hash(i) ==
    alt2(parse_str("\"", i),
         alt2(parse_str("'", i), alt2(parse_symbol_key(i), digit1(i))))

(************************** the value grammar ******************************)

RECURSIVE parse_value(_)
RECURSIVE parse_array(_)
RECURSIVE parse_hash(_)
RECURSIVE parse_key_value(_)
RECURSIVE parse_key_value_colon(_)
RECURSIVE parse_key_value_arrow(_)
RECURSIVE array_more(_, _, _)
RECURSIVE hash_more(_, _, _)

\* An insert that keeps the entry a key already has
RECURSIVE insert_keep_first(_, _, _)
insert_keep_first(entries, key, val) ==
    IF entries = <<>> THEN << <<key, val>> >>
    ELSE IF Head(entries)[1] = key THEN entries
    ELSE IF StrLess(key, Head(entries)[1]) THEN << <<key, val>> >> \o entries
    ELSE << Head(entries) >> \o insert_keep_first(Tail(entries), key, val)

\* BTreeMap::insert on the entries in key order: an equal key is overwritten
RECURSIVE insert(_, _, _)
insert(entries, key, val) ==
    IF entries = <<>> THEN << <<key, val>> >>
    ELSE IF Head(entries)[1] = key THEN << <<key, val>> >> \o Tail(entries)
    ELSE IF StrLess(key, Head(entries)[1]) THEN << <<key, val>> >> \o entries
    ELSE << Head(entries) >> \o insert(Tail(entries), key, val)

\* tuple_vec.into_iter().collect() into a BTreeMap
RECURSIVE collect(_)
collect(tuple_vec) ==
    IF tuple_vec = <<>> THEN <<>>
    ELSE LET last == tuple_vec[Len(tuple_vec)]
         IN  insert(collect(Take(tuple_vec, Len(tuple_vec) - 1)), last[1], last[2])

\* separated_list0(preceded(sp, char(',')), parse_value): r is the result of
\* the element after a separator found at s; an Err::Error of it ends the
\* list before that separator, at i.
array_push(r, s, i, res, sps) ==
    IF r.kind = "Error" THEN Ok(i, res, sps)
    ELSE IF r.kind = "Failure" THEN r
    ELSE array_more(r.rest, Append(res, r.val), sps \cup {Len(s)} \cup r.sps)

\* The separator is looked for at s, the input i after its whitespace
array_sep(s, i, res, sps) ==
    IF s = <<>> \/ Head(s) # "," THEN Ok(i, res, sps)
    ELSE array_push(parse_value(Tail(s)), s, i, res, sps)

array_more(i, res, sps) == array_sep(sp(i), i, res, sps)

\* r is the result of the first element
array_first(r, i) ==
    IF r.kind = "Error" THEN Ok(i, <<>>, {})
    ELSE IF r.kind = "Failure" THEN r
    ELSE array_more(r.rest, <<r.val>>, r.sps)

array_items(i) == array_first(parse_value(i), i)

\* preceded(sp, char(close)) after a list, as the end of terminated(list, ..)
closing(list, close) ==
    LET s == sp(list.rest)
    IN  IF list.kind # "Ok" THEN list
        ELSE IF s # <<>> /\ Head(s) = close
        THEN Ok(Tail(s), list.val, list.sps \cup {Len(s)})
        ELSE Mismatch(s)

\* map(.., Value::Array)
into_array(r) == IF r.kind = "Ok" THEN [r EXCEPT !.val = Array(@)] ELSE r

\* parse_array without cut after the opening bracket
parse_array_uncut(i) ==
    context("array", i,
        IF i = <<>> \/ Head(i) # "[" THEN Mismatch(i)
        ELSE into_array(closing(array_items(Tail(i)), "]")))

parse_array(i) ==
    context("array", i,
        IF i = <<>> \/ Head(i) # "[" THEN Mismatch(i)
        ELSE into_array(cut(closing(array_items(Tail(i)), "]"))))

\* separated_list0(preceded(sp, char(',')), parse_key_value), as for arrays
hash_push(r, s, i, res, sps) ==
    IF r.kind = "Error" THEN Ok(i, res, sps)
    ELSE IF r.kind = "Failure" THEN r
    ELSE hash_more(r.rest, Append(res, r.val), sps \cup {Len(s)} \cup r.sps)

hash_sep(s, i, res, sps) ==
    IF s = <<>> \/ Head(s) # "," THEN Ok(i, res, sps)
    ELSE hash_push(parse_key_value(Tail(s)), s, i, res, sps)

hash_more(i, res, sps) == hash_sep(sp(i), i, res, sps)

hash_first(r, i) ==
    IF r.kind = "Error" THEN Ok(i, <<>>, {})
    ELSE IF r.kind = "Failure" THEN r
    ELSE hash_more(r.rest, <<r.val>>, r.sps)

hash_items(i) == hash_first(parse_key_value(i), i)

\* map(map(list, collect), Value::Object)
into_object(r) == IF r.kind = "Ok" THEN [r EXCEPT !.val = Object(collect(@))] ELSE r

parse_hash(i) ==
    context("map", i,
        IF i = <<>> \/ Head(i) # "{" THEN Mismatch(i)
        ELSE into_object(cut(closing(hash_items(Tail(i)), "}"))))

\* map(parse_bytes, Value::Bytes)
into_bytes(r) == IF r.kind = "Ok" THEN [r EXCEPT !.val = Bytes(@)] ELSE r

\* A number without fraction digits wrapped as Value::Integer
into_float_or_integer(r) ==
    IF r.kind = "Ok" /\ r.val.v[2] = 0
    THEN [r EXCEPT !.val = Integer(r.val.v[1])]
    ELSE r

\* map(double, |value| Value::Float(value))
into_float(r) == r

\* map(parse_boolean, Value::Boolean)
into_boolean(r) == IF r.kind = "Ok" THEN [r EXCEPT !.val = Boolean(@)] ELSE r

\* The alt of parse_value, on the input after its leading whitespace
value_alt(i) ==
    alt2(parse_nil(i),
    alt2(parse_hash(i),
    alt2(parse_array(i),
    alt2(into_bytes(parse_bytes(i)),
    alt2(into_float(double(i)),
         into_boolean(parse_boolean(i)))))))

\* The value r found where left characters remained: a place where sp ran
value_at(r, left) ==
    IF r.kind = "Ok" THEN [r EXCEPT !.sps = @ \cup {left}] ELSE r

\* preceded(sp, alt(..)) on the input i after its leading whitespace
preceded_value(i) == value_at(value_alt(i), Len(i))

\* r with the whitespace after it consumed as well
then_sp(r) == IF r.kind = "Ok" THEN [r EXCEPT !.rest = sp(@)] ELSE r

\* parse_value as delimited(sp, alt, sp)
parse_value_trailing(input) == then_sp(preceded_value(sp(input)))

parse_value(input) == preceded_value(sp(input))

(*************************** key-value pairs *******************************)

\* The pair of the key k and the value v, the separator found at s
pair_of(k, v, s) ==
    IF v.kind # "Ok" THEN v
    ELSE Ok(v.rest, <<k.val, v.val>>, v.sps \cup {Len(s)})

\* cut(preceded(sp, tag(sep))) at s, the input after the key and whitespace,
\* then parse_value
separator(k, s, sep) ==
    IF ~StartsWith(s, sep) THEN cut(Mismatch(s))
    ELSE pair_of(k, parse_value(Drop(s, Len(sep))), s)

\* separated_pair(preceded(sp, key), cut(preceded(sp, tag(sep))), parse_value)
\* given the result k of the key scanner
key_value(k, sep) ==
    IF k.kind # "Ok" THEN k ELSE separator(k, sp(k.rest), sep)

parse_key_value_arrow(input) ==
    key_value(parse_key_arrow_hash(sp(input)), <<"=", ">">>)

parse_key_value_colon(input) ==
    key_value(parse_key_colon_hash(sp(input)), <<":">>)

parse_key_value(input) ==
    alt2(parse_key_value_colon(input), parse_key_value_arrow(input))

(***************************** the inputs **********************************)

\* The longest text of the "string" family, in characters
MaxChars == 7

\* The most pieces appended to a text of the other families
MaxTokens == 5

Q == "\""

BS == "\\"

Families == {"string", "pair", "array", "object", "example"}

\* The texts a family starts from
Seeds(f) ==
    CASE f = "string" -> {<<>>}
      [] f = "pair" -> {<<>>}
      [] f = "array" ->
            {<<>>, <<"[", "1", ",", " ", "2", ".", "5", ",", " ", "t", "r", "u", "e">>}
      [] f = "object" ->
            {<<"{">>,
             <<"{", Q, "a", Q, ":", " ", "1", ",", " ">>,
             <<"{", "b", ":", "1", ",">>}
      [] f = "example" ->
            {<<"n", "i", "l">>,
             <<":", "f", "o", "o", " ", "=", ">", " ", Q, "b", "a", "r", Q>>,
             <<"f", "o", "o", ":", " ", Q, "b", "a", "r", Q>>,
             <<Q, "a", BS, Q, "b", Q>>,
             <<Q, "a", BS, "n", "b", Q>>,
             <<Q, "a", "b", "c">>,
             <<"[", "1", ",", " ", "2">>,
             <<"'", "a", BS, "'", BS, BS, "'">>,
             <<"1", "2", " ", "=", ">", "f", "a", "l", "s", "e">>,
             <<"f", "o", "o", ":", " ", "b", "a", "r">>}

\* The pieces a family's texts are assembled from
Pieces(f) ==
    CASE f = "string" -> {<<Q>>, <<"'">>, <<BS>>, <<"a">>}
      [] f = "pair" ->
            {<<Q, "a", Q>>, <<"a">>, <<"1">>, <<":">>, <<" ", "=", ">", " ">>,
             <<" ">>, <<"n", "i", "l">>}
      [] f = "array" ->
            {<<"[">>, <<"]">>, <<",">>, <<" ">>, <<"1">>, <<"n", "i", "l">>}
      [] f = "object" ->
            {<<Q, "a", Q, ":", " ", "2">>, <<"b", ":", "2">>,
             <<":", "a", "=", ">", "[", "]">>, <<",">>, <<"}">>, <<"\n">>}
      [] f = "example" -> {<<" ">>, <<"\t">>}

Budget(f) == IF f = "string" THEN MaxChars ELSE MaxTokens

NoResult == Mismatch(<<>>)

(*************************** the state machine *****************************)

Init ==
    /\ family \in Families
    /\ text \in Seeds(family)
    /\ typed = 0
    /\ pc = "typing"
    /\ result = NoResult

\* The caller appends one piece to the text it will hand to the parser.
Type(piece) ==
    /\ pc = "typing"
    /\ typed < Budget(family)
    /\ text' = text \o piece
    /\ typed' = typed + 1
    /\ UNCHANGED <<family, pc, result>>

\* parse_value(text)
ParseValue ==
    /\ pc = "typing"
    /\ result' = parse_value(text)
    /\ pc' = "value"
    /\ UNCHANGED <<text, family, typed>>

\* parse_key_value(text), as main calls it
ParseKeyValue ==
    /\ pc = "typing"
    /\ result' = parse_key_value(text)
    /\ pc' = "pair"
    /\ UNCHANGED <<text, family, typed>>

Next ==
    \/ \E piece \in Pieces(family) : Type(piece)
    \/ ParseValue
    \/ ParseKeyValue

Spec == Init /\ [][Next]_vars

(***************************************************************************)
(*                              The claims                                 *)
(***************************************************************************)

\* The input of the call after its leading whitespace
Lead == sp(text)

\* What the call consumed of text
Used == Take(text, Len(text) - Len(result.rest))

Quotes == {Q, "'"}

ValueOk == pc = "value" /\ result.kind = "Ok"

PairOk == pc = "pair" /\ result.kind = "Ok"

\* A successful parse_value call on a quoted string literal
LiteralOk == ValueOk /\ Lead # <<>> /\ Head(Lead) \in Quotes

\* The body of that literal as it stands in the input, between its quotes
LiteralBody == SubSeq(Lead, 2, Len(Lead) - Len(result.rest) - 1)

\* s with the backslash removed from every backslash-backslash and every
\* backslash-delimiter pair, and nothing else changed
RECURSIVE Unescape(_, _)
Unescape(s, d) ==
    IF s = <<>> THEN <<>>
    ELSE IF Len(s) >= 2 /\ s[1] = BS
    THEN (IF s[2] \in {BS, d} THEN <<s[2]>> ELSE <<s[1], s[2]>>)
            \o Unescape(Drop(s, 2), d)
    ELSE <<s[1]>> \o Unescape(Tail(s), d)

\* C1: the Bytes payload of an accepted string literal is its body with the
\* backslash removed from every backslash-backslash pair and every
\* backslash-delimiter pair, and nothing else changed.
C1_PayloadIsUnescaped ==
    LiteralOk => result.val = Bytes(Unescape(LiteralBody, Head(Lead)))

\* The key of the colon form was scanned
ColonKeyScanned == parse_key_colon_hash(Lead).kind = "Ok"

\* C2: once the colon form has scanned a key, parse_key_value never returns an
\* ordinary mismatch and never tries the arrow form: what it returns is the
\* colon form's own result, any failure of it made a hard failure.
C2_ColonKeyCommits ==
    (pc = "pair" /\ ColonKeyScanned)
        => /\ result.kind # "Error"
           /\ result = cut(parse_key_value_colon(text))

AllDigits(s) == s # <<>> /\ DigitLen(s) = Len(s)

\* K is a whole quoted-string key or a whole digit-run key
QuotedOrDigitKey(K) ==
    /\ K # <<>>
    /\ \/ AllDigits(K)
       \/ /\ Head(K) \in Quotes
          /\ parse_str(Head(K), K).kind = "Ok"
          /\ parse_str(Head(K), K).rest = <<>>

\* V is a whole value
ValidValue(V) == parse_value(V).kind = "Ok" /\ parse_value(V).rest = <<>>

Arrow == <<" ", "=", ">", " ">>

\* C3: for a quoted-string or digit-run key K and a valid value V,
\* parse_key_value succeeds on 'K => V' and returns the pair it returns
\* for 'K: V'.
C3_BothFormsAgree ==
    pc = "pair" =>
        \A k \in 1..(Len(text) - Len(Arrow)) :
            LET K == Take(text, k)
                V == Drop(text, k + Len(Arrow))
                colon == parse_key_value(K \o <<":", " ">> \o V)
            IN  (/\ SubSeq(text, k + 1, k + Len(Arrow)) = Arrow
                 /\ QuotedOrDigitKey(K)
                 /\ ValidValue(V))
                    => /\ result.kind = "Ok"
                       /\ colon.kind = "Ok"
                       /\ colon.val = result.val
                       /\ colon.rest = result.rest

\* The key-value pairs of the object literal at the front of text, in the
\* order of the input
InputPairs == hash_items(Tail(Lead)).val

RECURSIVE Objects(_)
\* The entry lists of all the Objects of the tree v
Objects(v) ==
    IF v.tag = "Array"
    THEN UNION {Objects(v.v[k]) : k \in 1..Len(v.v)}
    ELSE IF v.tag = "Object"
    THEN {v.v} \cup UNION {Objects(v.v[k][2]) : k \in 1..Len(v.v)}
    ELSE {}

\* The keys strictly ascending: in lexicographic order, none twice
Ascending(entries) ==
    \A k \in 1..(Len(entries) - 1) : StrLess(entries[k][1], entries[k + 1][1])

\* C4: every Object of an accepted literal has its keys in lexicographic
\* order without duplicates, and an accepted object literal holds exactly the
\* keys of its input, each with the value of its last occurrence.
C4_ObjectSortedLastWins ==
    ValueOk =>
        /\ \A entries \in Objects(result.val) : Ascending(entries)
        /\ result.val.tag = "Object" =>
            /\ \A j \in 1..Len(InputPairs) :
                 \E k \in 1..Len(result.val.v) :
                    result.val.v[k][1] = InputPairs[j][1]
            /\ \A k \in 1..Len(result.val.v) :
                 \E j \in 1..Len(InputPairs) :
                    /\ InputPairs[j] = result.val.v[k]
                    /\ \A l \in (j + 1)..Len(InputPairs) :
                          InputPairs[l][1] # InputPairs[j][1]

ExDuplicate ==
    <<"{", Q, "a", Q, ":", " ", "1", ",", " ", Q, "a", Q, ":", " ", "2", "}">>

C4_Witness ==
    /\ pc = "value"
    /\ text = ExDuplicate
    /\ result.val = Object(<< << <<"a">>, Float(2, 0) >> >>)

C4_WitnessOrder ==
    /\ ValueOk
    /\ result.val.tag = "Object"
    /\ Len(InputPairs) = 3
    /\ Len(result.val.v) = 2
    /\ InputPairs[1][1] = <<"b">>

\* The context name and the Value variant of the construct an opening
\* delimiter starts
ConstructName(c) == IF c = "{" THEN "map" ELSE IF c = "[" THEN "array" ELSE "string"

ConstructTag(c) == IF c = "{" THEN "Object" ELSE IF c = "[" THEN "Array" ELSE "Bytes"

Openers == {"{", "["} \cup Quotes

\* C5: when the input of parse_value starts, after whitespace, with an opening
\* delimiter, the call returns either the value of that construct or a hard
\* failure whose context stack holds the construct's name, pushed at the
\* opening delimiter; never an ordinary mismatch.
C5_OpenedConstructCommits ==
    (pc = "value" /\ Lead # <<>> /\ Head(Lead) \in Openers)
        => \/ result.kind = "Ok" /\ result.val.tag = ConstructTag(Head(Lead))
           \/ /\ result.kind = "Failure"
              /\ \E k \in 1..Len(result.ctx) :
                    result.ctx[k] = [name |-> ConstructName(Head(Lead)),
                                     left |-> Len(Lead)]

ExOpenArray == <<"[", "1", ",", " ", "2">>

ExOpenString == <<Q, "a", "b", "c">>

C5_Witness ==
    /\ pc = "value"
    /\ text = ExOpenArray
    /\ result.kind = "Failure"
    /\ result.ctx = <<[name |-> "array", left |-> 5]>>

C5_WitnessString ==
    /\ pc = "value"
    /\ text = ExOpenString
    /\ result.kind = "Failure"
    /\ result.ctx[1].name = "string"

C5_WitnessMap ==
    /\ pc = "value"
    /\ text # <<>>
    /\ Head(text) = "{"
    /\ result.kind = "Failure"
    /\ result.ctx # <<>>
    /\ result.ctx[Len(result.ctx)].name = "map"

ExArrowPair == <<":", "f", "o", "o", " ", "=", ">", " ", Q, "b", "a", "r", Q>>

ExColonPair == <<"f", "o", "o", ":", " ", Q, "b", "a", "r", Q>>

\* The bareword at the front of s
Bareword(s) == Take(s, SymbolLen(s))

\* C6: an arrow-form symbol key is returned with its leading colon, a
\* colon-form bareword key as the bareword alone; the two examples of main
\* return (":foo", Bytes("bar")) and ("foo", Bytes("bar")) with nothing left;
\* the arrow form accepts no bareword key that lacks the colon prefix.
C6_KeyText ==
    pc = "pair" =>
        /\ (result.kind = "Ok" /\ Head(Lead) = ":")
              => /\ result.val[1] = <<":">> \o Bareword(Tail(Lead))
                 /\ StartsWith(sp(Drop(Lead, Len(result.val[1]))), <<"=", ">">>)
        /\ (result.kind = "Ok" /\ Bareword(Lead) # <<>>)
              => /\ result.val[1] = Bareword(Lead)
                 /\ StartsWith(sp(Drop(Lead, Len(result.val[1]))), <<":">>)
        /\ (Bareword(Lead) # <<>> /\ ~AllDigits(Bareword(Lead)))
              => parse_key_value_arrow(text).kind # "Ok"
        /\ text = ExArrowPair
              => result = Ok(<<>>, << <<":", "f", "o", "o">>, Bytes(<<"b", "a", "r">>) >>,
                             result.sps)
        /\ text = ExColonPair
              => result = Ok(<<>>, << <<"f", "o", "o">>, Bytes(<<"b", "a", "r">>) >>,
                             result.sps)

C6_Witness ==
    /\ PairOk
    /\ text = ExArrowPair
    /\ result.val[1] = <<":", "f", "o", "o">>

C6_WitnessColon ==
    /\ PairOk
    /\ text = ExColonPair
    /\ result.val[1] = <<"f", "o", "o">>

RECURSIVE HasInteger(_)
\* Whether the tree v holds the Integer variant at some depth
HasInteger(v) ==
    \/ v.tag = "Integer"
    \/ v.tag = "Array" /\ \E k \in 1..Len(v.v) : HasInteger(v.v[k])
    \/ v.tag = "Object" /\ \E k \in 1..Len(v.v) : HasInteger(v.v[k][2])

ExMixedArray ==
    <<"[", "1", ",", " ", "2", ".", "5", ",", " ", "t", "r", "u", "e", ",", " ",
      "n", "i", "l", "]">>

\* C7: no value tree returned by parse_value or parse_key_value holds the
\* Integer variant; [1, 2.5, true, nil] is
\* Array([Float(1.0), Float(2.5), Boolean(true), Null]).
C7_NeverInteger ==
    /\ ValueOk => ~HasInteger(result.val)
    /\ PairOk => ~HasInteger(result.val[2])
    /\ (pc = "value" /\ text = ExMixedArray)
          => /\ result.kind = "Ok"
             /\ result.val = Array(<<Float(1, 0), Float(25, -1), Boolean(TRUE), Null>>)

C7_Witness ==
    /\ ValueOk
    /\ text = ExMixedArray
    /\ result.val.v[1] = Float(1, 0)

C7_WitnessPair ==
    /\ PairOk
    /\ result.val[2] = Float(1, 0)

\* The runs of whitespace inserted
WsRuns == {<<" ">>, <<"\t">>, <<"\r">>, <<"\n">>, <<"\r", "\n">>}

\* text with w inserted where left characters of it remain
Inserted(left, w) ==
    Take(text, Len(text) - left) \o w \o Drop(text, Len(text) - left)

\* C8: a run of whitespace inserted before a value, a comma, a closing
\* delimiter or a key-value separator of an accepted input changes neither
\* the value (or pair) returned nor the remainder.
C8_WhitespaceIgnored ==
    /\ ValueOk =>
          \A left \in result.sps, w \in WsRuns :
             LET r == parse_value(Inserted(left, w))
             IN  r.kind = "Ok" /\ r.val = result.val /\ r.rest = result.rest
    /\ PairOk =>
          \A left \in result.sps, w \in WsRuns :
             LET r == parse_key_value(Inserted(left, w))
             IN  r.kind = "Ok" /\ r.val = result.val /\ r.rest = result.rest

C8_Witness ==
    /\ ValueOk
    /\ result.val.tag = "Object"
    /\ Len(result.val.v) >= 2
    /\ Cardinality(result.sps) >= 8

C8_WitnessPair ==
    /\ PairOk
    /\ Cardinality(result.sps) >= 2

ExNil == <<"n", "i", "l">>

\* C9: a successful parse_value returns a suffix of its input; what it
\* consumed is the leading whitespace and one value, which ends with no
\* whitespace and parses alone to the same value with nothing left.
C9_ConsumesOneValue ==
    /\ ValueOk =>
          /\ text = Used \o result.rest
          /\ sp(Used) # <<>>
          /\ Used[Len(Used)] \notin WsChars
          /\ parse_value(Used).kind = "Ok"
          /\ parse_value(Used).val = result.val
          /\ parse_value(Used).rest = <<>>
    /\ (pc = "value" /\ StartsWith(text, ExNil))
          => result.kind = "Ok" /\ result.val = Null /\ result.rest = Drop(text, 3)

C9_Witness ==
    /\ ValueOk
    /\ text = ExNil \o <<" ", "\t">>
    /\ result.rest = <<" ", "\t">>

C9_WitnessEmpty ==
    /\ ValueOk
    /\ text = ExNil
    /\ result.rest = <<>>

\* Where the first delimiter of s stands that no backslash escapes, every
\* backslash taking the character after it; 0 when there is none
RECURSIVE CloseAt(_, _, _)
CloseAt(s, d, k) ==
    IF k > Len(s) THEN 0
    ELSE IF s[k] = d THEN k
    ELSE IF s[k] = BS THEN CloseAt(s, d, k + 2)
    ELSE CloseAt(s, d, k + 1)

\* b is made of runs of plain characters, each run optionally followed by one
\* inert escape unit, and of the two escapes backslash-backslash and
\* backslash-delimiter: no inert unit without a run right before it.
RECURSIVE Recognized(_, _, _)
Recognized(b, d, afterRun) ==
    IF b = <<>> THEN TRUE
    ELSE IF b[1] # BS THEN Recognized(Tail(b), d, TRUE)
    ELSE IF Len(b) < 2 THEN FALSE
    ELSE IF b[2] \in {BS, d} THEN Recognized(Drop(b, 2), d, FALSE)
    ELSE afterRun /\ Recognized(Drop(b, 2), d, FALSE)

\* v is b with every inert escape unit as it stands in b, the backslash of
\* the other escapes kept or dropped
RECURSIVE KeepsInert(_, _, _)
KeepsInert(b, v, d) ==
    IF b = <<>> THEN v = <<>>
    ELSE IF b[1] # BS \/ Len(b) < 2
    THEN v # <<>> /\ v[1] = b[1] /\ KeepsInert(Tail(b), Tail(v), d)
    ELSE IF b[2] \in {BS, d}
    THEN \/ StartsWith(v, Take(b, 2)) /\ KeepsInert(Drop(b, 2), Drop(v, 2), d)
         \/ StartsWith(v, <<b[2]>>) /\ KeepsInert(Drop(b, 2), Tail(v), d)
    ELSE StartsWith(v, Take(b, 2)) /\ KeepsInert(Drop(b, 2), Drop(v, 2), d)

\* C10: a quoted literal is accepted exactly when its body, up to the first
\* delimiter no backslash escapes, is made of runs each optionally followed
\* by one inert escape unit (and of the two real escapes); the Bytes returned
\* hold every inert unit of that body unchanged; a literal with an inert
\* unit at the start of its body or right after another escape is a failure.
C10_BodyRecognition ==
    (pc = "value" /\ Lead # <<>> /\ Head(Lead) \in Quotes) =>
        LET d == Head(Lead)
            s == Tail(Lead)
            close == CloseAt(s, d, 1)
            b == Take(s, close - 1)
        IN  IF close > 0 /\ Recognized(b, d, FALSE)
            THEN /\ result.kind = "Ok"
                 /\ result.rest = Drop(s, close)
                 /\ result.val.tag = "Bytes"
                 /\ KeepsInert(b, result.val.v, d)
            ELSE result.kind = "Failure"

ExInert == <<Q, "a", BS, "n", "b", Q>>

C10_Witness ==
    /\ ValueOk
    /\ text = ExInert
    /\ result.val = Bytes(<<"a", BS, "n", "b">>)

C10_WitnessRejected ==
    /\ pc = "value"
    /\ text = <<Q, BS, BS, BS, "a", Q>>
    /\ result.kind = "Failure"

====
